---- MODULE Spec2Model ----
(***************************************************************************)
(* NutriSnap (src/app.py): a Streamlit script.  The framework re-executes  *)
(* the whole script, top to bottom, once per user interaction; the state   *)
(* that survives between two executions is st.session_state (analysis,     *)
(* daily_goal) and the widgets' values.  One action of this module is one  *)
(* execution of the script, triggered by one interaction.                  *)
(***************************************************************************)
EXTENDS Integers, Sequences, FiniteSets, TLC

VARIABLES
    analysis,       \* st.session_state.analysis (the Analysis Store)
    daily_goal,     \* st.session_state.daily_goal (the Goal Store)
    goal_input,     \* the values held by the four number_input widgets
    input_method,   \* the st.radio widget: "Camera" or "Upload"
    camera_image,   \* the st.camera_input widget's file, or NoFile
    uploaded_file,  \* the st.file_uploader widget's file, or NoFile
    left_panel,     \* what the last execution did and showed in col1
    panel,          \* what the last execution rendered in col2
    requests        \* number of HTTP POSTs issued to MODEL_URL so far

vars == <<analysis, daily_goal, goal_input, input_method, camera_image,
          uploaded_file, left_panel, panel, requests>>

----------------------------------------------------------------------------
(* Bounds of the model *)

\* the session issues at most this many HTTP requests
MaxRequests == 2

\* values a user types into a goal input (number_input sets no min_value)
GoalInputs == {0, 100}

----------------------------------------------------------------------------
(* Python values held by the Analysis Store.  A value is None or a dict;   *)
(* keys is the set of top-level keys the dict has, and a field whose key   *)
(* is absent holds the filler of Blank.                                    *)

SchemaKeys == {"foodName", "cuisineType", "calories", "macronutrients",
               "insightSummary", "dietaryTags", "recipe", "allergenAlert"}

Blank ==
    [type |-> "dict", keys |-> {},
     foodName |-> "", cuisineType |-> "", calories |-> 0,
     macronutrients |-> [proteinG |-> 0, carbsG |-> 0, fatG |-> 0],
     insightSummary |-> "", dietaryTags |-> <<>>,
     recipe |-> [title |-> "", ingredients |-> <<>>, instructions |-> <<>>],
     allergenAlert |-> [riskLevel |-> "", detected |-> <<>>, advice |-> ""]]

None == [Blank EXCEPT !.type = "None"]

EmptyDict == Blank

PartialDict == [Blank EXCEPT !.keys = {"foodName"}, !.foodName = "Dal"]

PadThai ==
    [type |-> "dict", keys |-> SchemaKeys,
     foodName |-> "Pad Thai", cuisineType |-> "Thai", calories |-> 600,
     macronutrients |-> [proteinG |-> 150, carbsG |-> 80, fatG |-> 20],
     insightSummary |-> "Protein-packed noodles.", dietaryTags |-> <<>>,
     recipe |-> [title |-> "Pad Thai", ingredients |-> <<"noodles", "peanuts">>,
                 instructions |-> <<"soak", "fry">>],
     allergenAlert |-> [riskLevel |-> "High", detected |-> <<"peanuts", "egg">>,
                        advice |-> "Avoid"]]

Paneer ==
    [type |-> "dict", keys |-> SchemaKeys,
     foodName |-> "Paneer Tikka", cuisineType |-> "Indian", calories |-> 450,
     macronutrients |-> [proteinG |-> 120, carbsG |-> 30, fatG |-> 70],
     insightSummary |-> "Grilled and rich.", dietaryTags |-> <<"Vegetarian">>,
     recipe |-> [title |-> "Paneer Tikka", ingredients |-> <<"paneer">>,
                 instructions |-> <<"marinate", "grill">>],
     allergenAlert |-> [riskLevel |-> "Medium", detected |-> <<"milk">>,
                        advice |-> "Check dairy tolerance"]]

Salad ==
    [type |-> "dict", keys |-> SchemaKeys,
     foodName |-> "Garden Salad", cuisineType |-> "Mediterranean", calories |-> 125,
     macronutrients |-> [proteinG |-> 5, carbsG |-> 300, fatG |-> 65],
     insightSummary |-> "Light and fresh.", dietaryTags |-> <<"Vegan", "Gluten-Free">>,
     recipe |-> [title |-> "Salad", ingredients |-> <<"lettuce">>,
                 instructions |-> <<"toss">>],
     allergenAlert |-> [riskLevel |-> "Low", detected |-> <<>>,
                        advice |-> "Safe for most diets"]]

\* Python truthiness of a stored value: None and the empty dict are falsy
Truthy(v) == v.type = "dict" /\ v.keys # {}

----------------------------------------------------------------------------
(* Image Acquisition and Encoder *)

NoFile == "NoFile"
\* `image = None` of line 170
NoImage == [file |-> "NoFile", mode |-> "None"]

\* files the camera widget and the uploader (type jpg, jpeg, png) can hold
CameraFiles == {"photo.jpg"}
UploadFiles == {"meal.png", "meal.jpg"}

\* Image.open(file): the bitmap; a camera photo is RGB, the PNG has alpha
Image_open(file) == [file |-> file,
                     mode |-> IF file = "meal.png" THEN "RGBA" ELSE "RGB"]

\* lines 170-176: the image comes from the widget of the selected method
SelectedImage(method, camera, uploaded) ==
    IF method = "Camera"
    THEN IF camera # NoFile THEN Image_open(camera) ELSE NoImage
    ELSE IF uploaded # NoFile THEN Image_open(uploaded) ELSE NoImage

NoException == [type |-> "", status |-> 0]
Raise(t) == [type |-> t, status |-> 0]

\* image.save(buffer, format="JPEG") refuses a bitmap with an alpha channel;
\* otherwise the JPEG bytes are base64-encoded
image_to_base64(image) ==
    IF image = NoImage
    THEN [raised |-> Raise("AttributeError"), b64 |-> ""]
    ELSE IF image.mode = "RGBA"
    THEN [raised |-> Raise("OSError"), b64 |-> ""]
    ELSE [raised |-> NoException, b64 |-> "b64(jpeg(" \o image.file \o "))"]

----------------------------------------------------------------------------
(* Model Client *)

TextRefusal == "I cannot analyze this image."
TextNull == "null"
TextEmpty == "{}"
TextPartial == "{\"foodName\": \"Dal\"}"
TextPadThai == "{\"foodName\": \"Pad Thai\", ...}"
TextPaneer == "{\"foodName\": \"Paneer Tikka\", ...}"
TextSalad == "{\"foodName\": \"Garden Salad\", ...}"

\* json.loads on the texts the model is taken to return
json_loads(text) ==
    CASE text = TextNull    -> [raised |-> NoException, value |-> None]
      [] text = TextEmpty   -> [raised |-> NoException, value |-> EmptyDict]
      [] text = TextPartial -> [raised |-> NoException, value |-> PartialDict]
      [] text = TextPadThai -> [raised |-> NoException, value |-> PadThai]
      [] text = TextPaneer  -> [raised |-> NoException, value |-> Paneer]
      [] text = TextSalad   -> [raised |-> NoException, value |-> Salad]
      [] OTHER              -> [raised |-> Raise("JSONDecodeError"), value |-> None]

\* what the inference endpoint can answer to one POST
Reply(net, status, body, text) ==
    [net |-> net, status |-> status, body |-> body, text |-> text]

Responses ==
    { Reply("Timeout", 0, "", ""),
      Reply("ConnectionError", 0, "", ""),
      Reply("ok", 500, "error", ""),
      Reply("ok", 200, "no_candidates", "") }
    \cup { Reply("ok", 200, "candidates", t) :
             t \in {TextRefusal, TextNull, TextEmpty, TextPartial,
                    TextPadThai, TextPaneer, TextSalad} }

\* requests.post wrapped in a retry: a failed attempt is sent once more
requests_post_retry(resp) ==
    [posts |-> IF resp.net = "ok" THEN 1 ELSE 2,
     raised |-> IF resp.net = "ok" THEN NoException ELSE Raise(resp.net)]

\* lines 136-141: one requests.post, which raises on a network failure or
\* after the 60 s timeout
requests_post(resp) ==
    [posts |-> 1,
     raised |-> IF resp.net = "ok" THEN NoException ELSE Raise(resp.net)]

\* line 142: response.raise_for_status()
raise_for_status(resp) ==
    IF resp.status >= 400 /\ resp.status < 600
    THEN [type |-> "HTTPError", status |-> resp.status]
    ELSE NoException

\* line 143: response.json()["candidates"][0]["content"]["parts"][0]["text"]
candidate_text(resp) ==
    IF resp.body = "candidates"
    THEN [raised |-> NoException, text |-> resp.text]
    ELSE [raised |-> Raise("KeyError"), text |-> ""]

\* lines 100-143
call_gemini(image_b64, resp) ==
    LET sent == requests_post(resp)
        http == raise_for_status(resp)
        got  == candidate_text(resp)
        obj  == json_loads(got.text)
    IN  IF sent.raised # NoException
        THEN [posts |-> sent.posts, raised |-> sent.raised, value |-> None]
        ELSE IF http # NoException
        THEN [posts |-> sent.posts, raised |-> http, value |-> None]
        ELSE IF got.raised # NoException
        THEN [posts |-> sent.posts, raised |-> got.raised, value |-> None]
        ELSE [posts |-> sent.posts, raised |-> obj.raised, value |-> obj.value]

----------------------------------------------------------------------------
(* Presentation Layer: the right panel, a function of the stored value and *)
(* the goals.  Python numbers are kept exact: a quotient is a fraction     *)
(* [n, d] in lowest terms with d > 0.                                      *)

RECURSIVE GCD(_, _)
GCD(a, b) == IF b = 0 THEN a ELSE GCD(b, a % b)

Abs(x) == IF x < 0 THEN -x ELSE x

\* value / goal, for goal # 0
Ratio(value, goal) ==
    LET g == GCD(Abs(value), Abs(goal))
        s == IF goal < 0 THEN -1 ELSE 1
    IN  [n |-> (s * value) \div g, d |-> (s * goal) \div g]

One == [n |-> 1, d |-> 1]

\* lines 243, 247, 251: min(value / goal, 1.0)
ProgressValue(value, goal) ==
    LET r == Ratio(value, goal) IN IF r.n > r.d THEN One ELSE r

\* line 229: round((calories / goal) * 100), Python's round half to even
PercentOfGoal(value, goal) ==
    LET r == Ratio(value * 100, goal)
        q == r.n \div r.d
        m == r.n % r.d
    IN  IF 2 * m < r.d THEN q
        ELSE IF 2 * m > r.d THEN q + 1
        ELSE IF q % 2 = 0 THEN q ELSE q + 1

\* lines 76-98: the donut's rows, in the fixed category order
create_donut_chart(protein, carbs, fat) ==
    << <<"Protein", protein>>, <<"Carbs", carbs>>, <<"Fat", fat>> >>

\* the colour dict with High and Medium exchanged
risk_color_swapped(level) ==
    CASE level = "High"   -> "orange"
      [] level = "Medium" -> "red"
      [] level = "Low"    -> "green"

\* lines 274-278; a level outside the dict raises KeyError at line 280
RiskLevels == {"High", "Medium", "Low"}
risk_color(level) ==
    CASE level = "High"   -> "red"
      [] level = "Medium" -> "orange"
      [] level = "Low"    -> "green"

\* lines 282-285
advice_style(level) == IF level # "Low" THEN "warning" ELSE "success"

Macros == <<"proteinG", "carbsG", "fatG">>

\* the statements of lines 211-290 that can raise, in execution order:
\*  1 foodName   2 cuisineType   3 insightSummary   4 energy metric
\*  5 macronutrients (chart)   6, 7, 8 the three progress bars
\*  9 recipe   10 allergenAlert   11 risk marker
LastStep == 11

\* st.progress rejects a value outside [0.0, 1.0]
StepError(step, data, goals) ==
    LET missing(k) == k \notin data.keys
        bar(k) == IF goals[k] = 0 THEN "ZeroDivisionError"
                  ELSE IF ProgressValue(data.macronutrients[k], goals[k]).n < 0
                  THEN "StreamlitAPIException" ELSE ""
        key(k) == IF missing(k) THEN "KeyError" ELSE ""
    IN  CASE step = 1  -> key("foodName")
          [] step = 2  -> key("cuisineType")
          [] step = 3  -> key("insightSummary")
          [] step = 4  -> IF missing("calories") THEN "KeyError"
                          ELSE IF goals.calories = 0 THEN "ZeroDivisionError"
                          ELSE ""
          [] step = 5  -> key("macronutrients")
          [] step \in 6..8 -> bar(Macros[step - 5])
          [] step = 9  -> key("recipe")
          [] step = 10 -> key("allergenAlert")
          [] step = 11 -> IF data.allergenAlert.riskLevel \in RiskLevels
                          THEN "" ELSE "KeyError"

\* the first step that raises, or LastStep + 1 when the script runs through
FirstError(data, goals) ==
    LET bad == {s \in 1..LastStep : StepError(s, data, goals) # ""}
    IN  IF bad = {} THEN LastStep + 1
        ELSE CHOOSE s \in bad : \A t \in bad : s <= t

Placeholder ==
    [placeholder |-> TRUE, title |-> "", tags |-> <<>>, caption |-> "",
     energy_pct |-> <<>>, chart |-> <<>>,
     progress |-> [proteinG |-> <<>>, carbsG |-> <<>>, fatG |-> <<>>],
     recipe |-> <<>>, marker |-> "", advice |-> <<>>, detected |-> <<>>,
     exception |-> ""]

\* lines 196-290.  An uncaught exception ends the script: what was rendered
\* before it stays on the page, followed by the exception.
RenderPanel(data, goals) ==
    IF ~Truthy(data) THEN Placeholder
    ELSE
    LET stop == FirstError(data, goals)
        m == data.macronutrients
        alert == data.allergenAlert
        tagsOf == IF "dietaryTags" \in data.keys THEN data.dietaryTags ELSE <<>>
        passed(i) ==
            IF stop > 5 + i
               \/ (stop = 5 + i /\ StepError(stop, data, goals) = "StreamlitAPIException")
            THEN << ProgressValue(m[Macros[i]], goals[Macros[i]]) >>
            ELSE <<>>
    IN  [placeholder |-> FALSE,
         title   |-> IF stop > 1 THEN data.foodName ELSE "",
         tags    |-> IF stop > 2 THEN <<data.cuisineType>> \o tagsOf ELSE <<>>,
         caption |-> IF stop > 3 THEN data.insightSummary ELSE "",
         energy_pct |-> IF stop > 4
                        THEN << PercentOfGoal(data.calories, goals.calories) >>
                        ELSE <<>>,
         chart   |-> IF stop > 5
                     THEN create_donut_chart(m.proteinG, m.carbsG, m.fatG)
                     ELSE <<>>,
         progress |-> [proteinG |-> passed(1), carbsG |-> passed(2),
                       fatG |-> passed(3)],
         recipe  |-> IF stop > 9 THEN <<data.recipe>> ELSE <<>>,
         marker  |-> IF stop > 11 THEN risk_color(alert.riskLevel) ELSE "",
         advice  |-> IF stop > 11
                     THEN << [style |-> advice_style(alert.riskLevel),
                              text |-> alert.advice] >>
                     ELSE <<>>,
         detected |-> IF stop > 11 THEN alert.detected ELSE <<>>,
         exception |-> IF stop > LastStep THEN ""
                       ELSE StepError(stop, data, goals)]

----------------------------------------------------------------------------
(* Session state and one execution of the script *)

GoalKeys == {"calories", "proteinG", "carbsG", "fatG"}

\* lines 62-68
DefaultGoal == [calories |-> 2000, proteinG |-> 120, carbsG |-> 250, fatG |-> 65]

\* number_input giving back its value argument, whatever the user typed
number_input_stale(value, held) == value

\* lines 151-154: st.number_input(label, value=...) returns what the widget
\* holds; value is only what a fresh widget starts from
number_input(value, held) == held

\* the button created outside the `if image:` block
ButtonAlways(image) == TRUE

\* line 178: the button is created only under `if image:`
ButtonOffered(image) == image # NoImage

\* an except branch that also resets the store
StoreAfterCleared(store, call) ==
    IF call.raised = NoException THEN call.value ELSE None

\* lines 188-192: the store after the try block
StoreAfter(store, call) ==
    IF call.raised = NoException THEN call.value ELSE store

Idle(store) ==
    [analysis |-> store, encodes |-> 0, posts |-> 0, label |-> "",
     error |-> NoException]

\* lines 182-192: the body run when st.button returns True
DecodeHandler(store, image, resp) ==
    LET enc  == image_to_base64(image)
        call == call_gemini(enc.b64, resp)
    IN  IF enc.raised # NoException
        THEN [analysis |-> store, encodes |-> 1, posts |-> 0,
              label |-> "Analysis Failed", error |-> enc.raised]
        ELSE [analysis |-> StoreAfter(store, call), encodes |-> 1,
              posts |-> call.posts,
              label |-> IF call.raised = NoException
                        THEN "Analysis Complete!" ELSE "Analysis Failed",
              error |-> call.raised]

\* the panel reading the store before the left panel has run
PanelDataStale(before, after) == before

\* line 196: the panel reads the store after the left panel has run
PanelData(before, after) == after

\* One execution of the script, lines 59-290, for widget values already
\* updated by the interaction; clicked says the interaction was a click on
\* the button and resp is what the endpoint would answer.
Script(clicked, resp) ==
    LET goals == [k \in GoalKeys |-> number_input(daily_goal[k], goal_input'[k])]
        image == SelectedImage(input_method', camera_image', uploaded_file')
        offered == ButtonOffered(image)
        done  == IF offered /\ clicked
                 THEN DecodeHandler(analysis, image, resp)
                 ELSE Idle(analysis)
    IN  /\ daily_goal' = goals
        /\ analysis' = done.analysis
        /\ requests' = requests + done.posts
        /\ left_panel' = [offered |-> offered, clicked |-> offered /\ clicked,
                          encodes |-> done.encodes, posts |-> done.posts,
                          label |-> done.label, error |-> done.error]
        /\ panel' = RenderPanel(PanelData(analysis, done.analysis), goals)

\* the page after the first execution of a new session
Init ==
    /\ analysis = None
    /\ daily_goal = DefaultGoal
    /\ goal_input = DefaultGoal
    /\ input_method = "Camera"
    /\ camera_image = NoFile
    /\ uploaded_file = NoFile
    /\ left_panel = [offered |-> ButtonOffered(NoImage), clicked |-> FALSE,
                     encodes |-> 0, posts |-> 0, label |-> "",
                     error |-> NoException]
    /\ panel = RenderPanel(None, DefaultGoal)
    /\ requests = 0

\* the user types v into the goal input k
EditGoal(k, v) ==
    /\ v # goal_input[k]
    /\ goal_input' = [goal_input EXCEPT ![k] = v]
    /\ UNCHANGED <<input_method, camera_image, uploaded_file>>
    /\ Script(FALSE, CHOOSE r \in Responses : TRUE)

\* the user flips the Camera / Upload radio
SelectInputMethod(m) ==
    /\ m # input_method
    /\ input_method' = m
    /\ UNCHANGED <<goal_input, camera_image, uploaded_file>>
    /\ Script(FALSE, CHOOSE r \in Responses : TRUE)

\* the user takes a photo, or clears it
TakePhoto(f) ==
    /\ input_method = "Camera"
    /\ f # camera_image
    /\ camera_image' = f
    /\ UNCHANGED <<goal_input, input_method, uploaded_file>>
    /\ Script(FALSE, CHOOSE r \in Responses : TRUE)

\* the user uploads a file, or removes it
UploadFile(f) ==
    /\ input_method = "Upload"
    /\ f # uploaded_file
    /\ uploaded_file' = f
    /\ UNCHANGED <<goal_input, input_method, camera_image>>
    /\ Script(FALSE, CHOOSE r \in Responses : TRUE)

\* the user clicks "Decode Nutrition"; the button is on the page only if
\* the previous execution created it
DecodeNutrition(resp) ==
    /\ left_panel.offered
    /\ requests < MaxRequests
    /\ UNCHANGED <<goal_input, input_method, camera_image, uploaded_file>>
    /\ Script(TRUE, resp)

Next ==
    \/ \E k \in GoalKeys, v \in GoalInputs : EditGoal(k, v)
    \/ \E m \in {"Camera", "Upload"} : SelectInputMethod(m)
    \/ \E f \in CameraFiles \cup {NoFile} : TakePhoto(f)
    \/ \E f \in UploadFiles \cup {NoFile} : UploadFile(f)
    \/ \E resp \in Responses : DecodeNutrition(resp)

Spec == Init /\ [][Next]_vars

----------------------------------------------------------------------------
(* Vocabulary of the properties *)

\* a stored value with every field of the AnalysisResult schema
Complete(v) == v.type = "dict" /\ SchemaKeys \subseteq v.keys

ValidJsonTexts ==
    {TextNull, TextEmpty, TextPartial, TextPadThai, TextPaneer, TextSalad}

\* the exchange fails: network failure, timeout, non-success status, an
\* envelope without the text, or a text that is not valid JSON
CallFails(resp) ==
    \/ resp.net # "ok"
    \/ resp.status < 200 \/ resp.status > 299
    \/ resp.body # "candidates"
    \/ resp.text \notin ValidJsonTexts

\* success status and valid JSON text whose object lacks schema fields
MissingFields(resp) ==
    /\ ~CallFails(resp)
    /\ json_loads(resp.text).value.type = "dict"
    /\ ~Complete(json_loads(resp.text).value)

\* this step is an execution in which the Model Client was called with resp
IsCall(resp) == left_panel'.posts > 0 /\ DecodeNutrition(resp)

\* this step is an execution triggered by a click on the button
IsTrigger(resp) == left_panel'.clicked /\ DecodeNutrition(resp)

ImageNow == SelectedImage(input_method, camera_image, uploaded_file)

----------------------------------------------------------------------------
(* C1 *)

\* C1: in every execution whose Model Client call fails, the Analysis Store
\* afterwards equals the Analysis Store before, the status reads "Analysis
\* Failed" and st.error shows the exception, which carries the status code
\* when the failure is an HTTP status.
C1_FailedCallKeepsStore ==
    [][\A resp \in Responses :
         (IsCall(resp) /\ CallFails(resp)) =>
            /\ analysis' = analysis
            /\ left_panel'.label = "Analysis Failed"
            /\ left_panel'.error # NoException
            /\ (resp.net = "ok" /\ resp.status # 200
                   => left_panel'.error.status = resp.status)]_vars

\* a result is in the store and the last execution showed an HTTP 500 error
C1_Witness ==
    /\ analysis = PadThai
    /\ left_panel.posts = 1
    /\ left_panel.error = [type |-> "HTTPError", status |-> 500]

----------------------------------------------------------------------------
(* C2 *)

\* C2: in every reachable state the Analysis Store is absent (None) or holds
\* an object with every field of the AnalysisResult schema.
C2_StoreAbsentOrComplete == analysis = None \/ Complete(analysis)

----------------------------------------------------------------------------
(* C3 *)

\* C3: a response with success status whose text is valid JSON but lacks
\* expected fields is treated like a transport error: the store is left
\* unchanged and an error is shown at the call site.
C3_MissingFieldsRejected ==
    [][\A resp \in Responses :
         (IsCall(resp) /\ MissingFields(resp)) =>
            /\ analysis' = analysis
            /\ left_panel'.error # NoException]_vars

----------------------------------------------------------------------------
(* C4 *)

\* C4: the Analysis Store starts absent; it changes only in an execution
\* whose Model Client call succeeds, to that call's parsed result; after a
\* successful call it holds an AnalysisResult, and it is never absent again.
C4_StoreLifecycle ==
    /\ analysis = None
    /\ [][/\ analysis' # analysis =>
                \E resp \in Responses :
                   /\ IsCall(resp)
                   /\ ~CallFails(resp)
                   /\ analysis' = json_loads(resp.text).value
          /\ \A resp \in Responses :
                (IsCall(resp) /\ ~CallFails(resp)) =>
                   /\ analysis' = json_loads(resp.text).value
                   /\ Complete(analysis')
          /\ analysis # None => analysis' # None]_vars

----------------------------------------------------------------------------
(* C5 *)

\* C5: in every execution in which the selected input source supplies no
\* image, the button is not created, nothing is encoded, no request is sent
\* and the Analysis Store is not written.
C5_NoImageNoAnalysis ==
    [][SelectedImage(input_method', camera_image', uploaded_file') = NoImage =>
          /\ ~left_panel'.offered
          /\ ~left_panel'.clicked
          /\ left_panel'.encodes = 0
          /\ left_panel'.posts = 0
          /\ requests' = requests
          /\ analysis' = analysis]_vars

\* the selected source is empty while the other source holds a file
C5_Witness ==
    /\ input_method = "Upload"
    /\ uploaded_file = NoFile
    /\ camera_image # NoFile
    /\ ~left_panel.offered

----------------------------------------------------------------------------
(* C6 *)

\* C6: every execution sends no request or one; a request is sent only in an
\* execution triggered by a click; a click whose image encodes sends exactly
\* one request whatever the response and whatever was analysed before (no
\* retry after a failure, no cache); a click whose image does not encode
\* sends none.
C6_OneRequestPerTrigger ==
    [][/\ requests' - requests \in {0, 1}
       /\ requests' - requests = left_panel'.posts
       /\ requests' # requests => left_panel'.clicked
       /\ \A resp \in Responses :
             IsTrigger(resp) =>
                requests' - requests =
                   IF image_to_base64(ImageNow).raised = NoException
                   THEN 1 ELSE 0]_vars

\* the same photo was sent twice: a second request while its first result
\* is still in the store, the method and the files never having changed
C6_Witness ==
    /\ requests = 2
    /\ left_panel.posts = 1
    /\ input_method = "Camera"
    /\ camera_image = "photo.jpg"
    /\ uploaded_file = NoFile
    /\ analysis = Salad
    /\ left_panel.error = Raise("Timeout")

----------------------------------------------------------------------------
(* C7 *)

\* C7: the Goal Store starts at 2000 / 120 / 250 / 65; after every execution
\* each field equals what its goal input holds; a field changes only in an
\* execution triggered by the user typing that value into that input; an
\* execution triggered by the button leaves every field unchanged.
C7_GoalsOnlyUserEdited ==
    /\ daily_goal = [calories |-> 2000, proteinG |-> 120,
                     carbsG |-> 250, fatG |-> 65]
    /\ [][/\ \A k \in GoalKeys :
                /\ daily_goal'[k] = goal_input'[k]
                /\ daily_goal'[k] # daily_goal[k] =>
                      /\ daily_goal'[k] \in GoalInputs
                      /\ EditGoal(k, daily_goal'[k])
          /\ left_panel'.clicked => daily_goal' = daily_goal]_vars

\* an edited goal survived a successful and then a failed analysis
C7_Witness ==
    /\ daily_goal = [calories |-> 2000, proteinG |-> 100,
                     carbsG |-> 250, fatG |-> 65]
    /\ analysis = Paneer
    /\ left_panel.label = "Analysis Failed"

----------------------------------------------------------------------------
(* C8 *)

\* C8: for every macro, whenever a complete result is stored whose value
\* exceeds the goal and the rendering has reached the Macro Breakdown (the
\* chart above it is drawn), st.progress is passed exactly 1.0; and no value
\* passed to st.progress exceeds 1.0.
C8_ProgressClamped ==
    \A i \in 1..3 :
       LET k == Macros[i] IN
       /\ (/\ Complete(analysis)
           /\ panel.chart # <<>>
           /\ analysis.macronutrients[k] > daily_goal[k])
             => panel.progress[k] = <<One>>
       /\ \A j \in 1..Len(panel.progress[k]) :
             panel.progress[k][j].n <= panel.progress[k][j].d

----------------------------------------------------------------------------
(* C9 *)

----------------------------------------------------------------------------
(* C10 *)

====
